---- MODULE Spec2Model ----
(***************************************************************************)
(* Model of the watering backend (src/backend/src/main.rs): one            *)
(* GpioController behind a tokio Mutex, shared by the two axum handlers    *)
(* status_handler and water_handler.  Every request is a task whose        *)
(* position (pc) advances between the await points and early returns of    *)
(* its handler.  The yew client (src/src/main.rs) is modelled next to it,  *)
(* with the server side as its environment.                                *)
(***************************************************************************)
EXTENDS Integers, FiniteSets, Sequences, TLC

\* ---------------------------------------------------------------- bounds
MaxReq == 2
Reqs == 1..MaxReq

\* ------------------------------------------------------------- constants
API_SECRET_KEY == "0228"
WATER_PUMP_PIN == 17
WATER_DURATION_SECS == 5

\* The X-API-KEY header of a request: absent, or one of two values.
NoHeader == "<absent>"
Headers == {NoHeader, "0228", "9999"}

\* A JSON body is the set of its <<field, value>> members.
Bodies == { {<<"action", "start">>}, {<<"action", "stop">>}, {} }
NoBody == {<<"none", "none">>}

Kinds == {"status", "water"}

\* Outcome of the hardware probe made by GpioController::new.
Probes == {"NoFeature", "GpioErr", "PinErr", "Ok"}

\* The client's API_KEY and the answers a server can give it.
API_KEY == "0228"
NoReply == [kind |-> "none", code |-> 0, shape |-> "none", error |-> "none"]
NoError == [some |-> FALSE, msg |-> "none", code |-> 0]

NoResp == [code |-> 0, body |-> "none", text |-> "none", secs |-> 0, pin |-> 0]
NoResult == [ok |-> TRUE, text |-> "none", secs |-> 0]

VARIABLES
    mainPc,     \* position of main: "start", "constructed", "serving"
    probe,      \* what the hardware will answer to GpioController::new; "Taken" after
    variant,    \* GpioController: "Unconstructed", "Real", "Dummy"
    line,       \* level of the output pin: "unbound", "low", "high"
    holder,     \* request holding state.gpio (tokio Mutex), 0 when free
    pc,         \* position of each request's task
    kind,       \* which route the request was sent to
    header,     \* its X-API-KEY header
    body,       \* its JSON body
    slept,      \* seconds its run_motor sleep has lasted
    result,     \* what run_motor returned to it
    resp,       \* the response it was answered with
    started,    \* number of run_motor calls it has begun
    completed,  \* number of run_motor calls it has finished
    \* the UI client (src/src/main.rs)
    cpc,             \* position of the client's one async task
    connection_type, \* use_state ConnectionType: "None", "Remote"
    status,          \* use_state status line
    is_loading,      \* use_state is_loading
    error,           \* use_state error: Option<String>
    reply,           \* the server's answer to the request in progress or last made
    lastCheck        \* how the last completed status check ended

backend == <<mainPc, probe, variant, line, holder, pc, kind, header, body,
             slept, result, resp, started, completed>>

client == <<cpc, connection_type, status, is_loading, error, reply, lastCheck>>

vars == <<backend, client>>

reqIn == <<kind, header, body>>
hist == <<started, completed>>
hw == <<mainPc, probe, variant>>

\* ------------------------------------------------------------ operators

\* WaterRequest { action: String }: deserialization needs the field.
HasAction(b) == \E m \in b : m[1] = "action"
ActionOf(b) == (CHOOSE m \in b : m[1] = "action")[2]

\* validate_api_key: Some(key) if key == API_SECRET_KEY => Ok
validate_api_key(h) == h # NoHeader /\ h = API_SECRET_KEY

\* Variant of is_dummy: the test is made against the other arm.
is_dummy_Inverted(v) == v = "Real"

is_dummy(v) == v = "Dummy"

\* Variant of GpioController_new: a failed gpio.get(pin) is not noticed.
GpioController_new_PinErrIgnored(p) ==
    IF p = "NoFeature" THEN [variant |-> "Dummy", line |-> "unbound"]
    ELSE IF p = "GpioErr" THEN [variant |-> "Dummy", line |-> "unbound"]
    ELSE [variant |-> "Real", line |-> "low"]

\* GpioController::new: Real only when the gpio feature is compiled in and
\* both Gpio::new() and gpio.get(pin) succeed; the pin is then made an
\* output at its low level.  Every other path falls through to Dummy.
GpioController_new(p) ==
    IF p = "NoFeature" THEN [variant |-> "Dummy", line |-> "unbound"]
    ELSE IF p = "GpioErr" THEN [variant |-> "Dummy", line |-> "unbound"]
    ELSE IF p = "PinErr" THEN [variant |-> "Dummy", line |-> "unbound"]
    ELSE [variant |-> "Real", line |-> "low"]

\* Variant of Descriptor: the Dummy arm reports the text of the Real arm.
Descriptor_AlwaysReal(v, secs) ==
    [ok |-> TRUE, text |-> "real run", secs |-> secs]

\* Variant of Descriptor: the Real arm reports a driver error.
Descriptor_ErrOnReal(v, secs) ==
    [ok |-> v # "Real", text |-> IF v = "Real" THEN "gpio error" ELSE "dummy run", secs |-> secs]

\* run_motor's Ok value: which arm ran, and duration.as_secs()
Descriptor(v, secs) ==
    [ok |-> TRUE, text |-> IF v = "Real" THEN "real run" ELSE "dummy run", secs |-> secs]

ErrResp(c, t) == [code |-> c, body |-> "error", text |-> t, secs |-> 0, pin |-> 0]

Terminal == {"Responded", "Unauthorized", "Rejected", "Failed", "ExtractRejected"}

\* ----------------------------------------------------------------- init
Init ==
    /\ mainPc = "start"
    /\ probe \in Probes
    /\ variant = "Unconstructed"
    /\ line = "unbound"
    /\ holder = 0
    /\ pc = [r \in Reqs |-> "Idle"]
    /\ kind = [r \in Reqs |-> "status"]
    /\ header = [r \in Reqs |-> NoHeader]
    /\ body = [r \in Reqs |-> NoBody]
    /\ slept = [r \in Reqs |-> 0]
    /\ result = [r \in Reqs |-> NoResult]
    /\ resp = [r \in Reqs |-> NoResp]
    /\ started = [r \in Reqs |-> 0]
    /\ completed = [r \in Reqs |-> 0]
    /\ cpc = "Unmounted"
    /\ connection_type = "None"
    /\ status = "waiting"
    /\ is_loading = FALSE
    /\ error = NoError
    /\ reply = NoReply
    /\ lastCheck = "none"

\* ----------------------------------------------------------------- main

\* main: let gpio = GpioController::new(WATER_PUMP_PIN)
MainGpioNew ==
    /\ mainPc = "start"
    /\ variant' = GpioController_new(probe).variant
    /\ line' = GpioController_new(probe).line
    /\ probe' = "Taken"
    /\ mainPc' = "constructed"
    /\ UNCHANGED <<holder, pc, reqIn, slept, result, resp, hist, client>>

\* main: AppState { gpio: Mutex::new(gpio) }, router, bind, serve
MainServe ==
    /\ mainPc = "constructed"
    /\ mainPc' = "serving"
    /\ UNCHANGED <<probe, variant, line, holder, pc, reqIn, slept, result, resp, hist, client>>

\* ------------------------------------------------------------- requests

\* A client sends a request to one of the two routes.
Arrive(r) ==
    /\ mainPc = "serving"
    /\ pc[r] = "Idle"
    /\ \E k \in Kinds, h \in Headers, b \in Bodies :
        /\ kind' = [kind EXCEPT ![r] = k]
        /\ header' = [header EXCEPT ![r] = h]
        /\ body' = [body EXCEPT ![r] = IF k = "water" THEN b ELSE NoBody]
    /\ pc' = [pc EXCEPT ![r] = "Received"]
    /\ UNCHANGED <<hw, line, holder, slept, result, resp, hist, client>>

\* ------------------------------------------------------- status_handler

\* validate_api_key(&headers).await?
StatusAuth(r) ==
    /\ pc[r] = "Received" /\ kind[r] = "status"
    /\ IF validate_api_key(header[r])
       THEN /\ pc' = [pc EXCEPT ![r] = "Authenticated"]
            /\ UNCHANGED resp
       ELSE /\ pc' = [pc EXCEPT ![r] = "Unauthorized"]
            /\ resp' = [resp EXCEPT ![r] = ErrResp(401, "Unauthorized: Invalid API Key")]
    /\ UNCHANGED <<hw, line, holder, reqIn, slept, result, hist, client>>

\* let gpio = state.gpio.lock().await
StatusLock(r) ==
    /\ pc[r] = "Authenticated" /\ kind[r] = "status"
    /\ holder = 0
    /\ holder' = r
    /\ pc' = [pc EXCEPT ![r] = "LockAcquired"]
    /\ UNCHANGED <<hw, line, reqIn, slept, result, resp, hist, client>>

\* Variant of StatusBuild: the handler awaits state.gpio a second time
\* while it still holds the first guard.
StatusBuild_Relock(r) ==
    /\ pc[r] = "LockAcquired" /\ kind[r] = "status"
    /\ pc' = [pc EXCEPT ![r] = "Authenticated"]
    /\ UNCHANGED <<hw, line, holder, reqIn, slept, result, resp, hist, client>>

\* mode from gpio.is_dummy(); Ok(Json(StatusResponse { .. }))
StatusBuild(r) ==
    /\ pc[r] = "LockAcquired" /\ kind[r] = "status"
    /\ resp' = [resp EXCEPT ![r] =
                  [code |-> 200, body |-> "status",
                   text |-> IF is_dummy(variant) THEN "DUMMY MODE" ELSE "LIVE RPi.GPIO MODE",
                   secs |-> 0, pin |-> WATER_PUMP_PIN]]
    /\ pc' = [pc EXCEPT ![r] = "Built"]
    /\ UNCHANGED <<hw, line, holder, reqIn, slept, result, hist, client>>

\* end of status_handler: the guard gpio is dropped, the response returned
StatusReturn(r) ==
    /\ pc[r] = "Built" /\ kind[r] = "status"
    /\ holder' = IF holder = r THEN 0 ELSE holder
    /\ pc' = [pc EXCEPT ![r] = "Responded"]
    /\ UNCHANGED <<hw, line, reqIn, slept, result, resp, hist, client>>

\* -------------------------------------------------------- water_handler

\* Json(payload): Json<WaterRequest> -- the extractor runs before the body
\* of water_handler; a body without the action field is refused by it.
WaterExtract(r) ==
    /\ pc[r] = "Received" /\ kind[r] = "water"
    /\ IF HasAction(body[r])
       THEN /\ pc' = [pc EXCEPT ![r] = "Extracted"]
            /\ UNCHANGED resp
       ELSE /\ pc' = [pc EXCEPT ![r] = "ExtractRejected"]
            /\ resp' = [resp EXCEPT ![r] =
                          [code |-> 422, body |-> "plain", text |-> "missing field action", secs |-> 0, pin |-> 0]]
    /\ UNCHANGED <<hw, line, holder, reqIn, slept, result, hist, client>>

\* validate_api_key(&headers).await?
WaterAuth(r) ==
    /\ pc[r] = "Extracted" /\ kind[r] = "water"
    /\ IF validate_api_key(header[r])
       THEN /\ pc' = [pc EXCEPT ![r] = "Authenticated"]
            /\ UNCHANGED resp
       ELSE /\ pc' = [pc EXCEPT ![r] = "Unauthorized"]
            /\ resp' = [resp EXCEPT ![r] = ErrResp(401, "Unauthorized: Invalid API Key")]
    /\ UNCHANGED <<hw, line, holder, reqIn, slept, result, hist, client>>

\* if payload.action != "start" { return Err((BAD_REQUEST, ..)) }
WaterValidate(r) ==
    /\ pc[r] = "Authenticated" /\ kind[r] = "water"
    /\ IF ActionOf(body[r]) # "start"
       THEN /\ pc' = [pc EXCEPT ![r] = "Rejected"]
            /\ resp' = [resp EXCEPT ![r] =
                          ErrResp(400, "Invalid request body. Expected {'action': 'start'}")]
       ELSE /\ pc' = [pc EXCEPT ![r] = "Validated"]
            /\ UNCHANGED resp
    /\ UNCHANGED <<hw, line, holder, reqIn, slept, result, hist, client>>

\* Variant of WaterLock: the lock is taken without waiting for its holder.
WaterLock_NoExclusion(r) ==
    /\ pc[r] = "Validated" /\ kind[r] = "water"
    /\ holder' = r
    /\ pc' = [pc EXCEPT ![r] = "LockAcquired"]
    /\ UNCHANGED <<hw, line, reqIn, slept, result, resp, hist, client>>

\* Variant of WaterLock: a request that finds the lock held is turned away
\* instead of waiting for it (try_lock).
WaterLock_TryLock(r) ==
    /\ pc[r] = "Validated" /\ kind[r] = "water"
    /\ IF holder = 0
       THEN /\ holder' = r
            /\ pc' = [pc EXCEPT ![r] = "LockAcquired"]
            /\ UNCHANGED resp
       ELSE /\ pc' = [pc EXCEPT ![r] = "Rejected"]
            /\ resp' = [resp EXCEPT ![r] = ErrResp(409, "busy")]
            /\ UNCHANGED holder
    /\ UNCHANGED <<hw, line, reqIn, slept, result, hist, client>>

\* let mut gpio = state.gpio.lock().await
WaterLock(r) ==
    /\ pc[r] = "Validated" /\ kind[r] = "water"
    /\ holder = 0
    /\ holder' = r
    /\ pc' = [pc EXCEPT ![r] = "LockAcquired"]
    /\ UNCHANGED <<hw, line, reqIn, slept, result, resp, hist, client>>

\* Variant of RunMotorStart: the controller falls back to Dummy when driven.
RunMotorStart_Fallback(r) ==
    /\ pc[r] = "LockAcquired" /\ kind[r] = "water"
    /\ variant' = "Dummy"
    /\ line' = IF variant = "Real" THEN "high" ELSE line
    /\ slept' = [slept EXCEPT ![r] = 0]
    /\ started' = [started EXCEPT ![r] = @ + 1]
    /\ pc' = [pc EXCEPT ![r] = "Driving"]
    /\ UNCHANGED <<mainPc, probe, holder, reqIn, result, resp, completed, client>>

\* run_motor up to its await: Real sets the pin high, Dummy only logs;
\* both then enter tokio::time::sleep(duration)
RunMotorStart(r) ==
    /\ pc[r] = "LockAcquired" /\ kind[r] = "water"
    /\ line' = IF variant = "Real" THEN "high" ELSE line
    /\ slept' = [slept EXCEPT ![r] = 0]
    /\ started' = [started EXCEPT ![r] = @ + 1]
    /\ pc' = [pc EXCEPT ![r] = "Driving"]
    /\ UNCHANGED <<hw, holder, reqIn, result, resp, completed, client>>

\* one second of tokio::time::sleep(duration) passes
Tick(r) ==
    /\ pc[r] = "Driving"
    /\ slept[r] < WATER_DURATION_SECS
    /\ slept' = [slept EXCEPT ![r] = @ + 1]
    /\ UNCHANGED <<hw, line, holder, pc, reqIn, result, resp, hist, client>>

\* Variant of RunMotorFinish: the pin is left high after the sleep.
RunMotorFinish_NoSetLow(r) ==
    /\ pc[r] = "Driving"
    /\ slept[r] = WATER_DURATION_SECS
    /\ result' = [result EXCEPT ![r] = Descriptor(variant, WATER_DURATION_SECS)]
    /\ completed' = [completed EXCEPT ![r] = @ + 1]
    /\ pc' = [pc EXCEPT ![r] = "DriveDone"]
    /\ UNCHANGED <<hw, line, holder, reqIn, slept, resp, started, client>>

\* run_motor after its await: Real sets the pin low; both return Ok(..)
RunMotorFinish(r) ==
    /\ pc[r] = "Driving"
    /\ slept[r] = WATER_DURATION_SECS
    /\ line' = IF variant = "Real" THEN "low" ELSE line
    /\ result' = [result EXCEPT ![r] = Descriptor(variant, WATER_DURATION_SECS)]
    /\ completed' = [completed EXCEPT ![r] = @ + 1]
    /\ pc' = [pc EXCEPT ![r] = "DriveDone"]
    /\ UNCHANGED <<hw, holder, reqIn, slept, resp, started, client>>

\* Variant of WaterBuild: the handler drives a second time before answering.
WaterBuild_Retry(r) ==
    /\ pc[r] = "DriveDone" /\ kind[r] = "water"
    /\ IF started[r] < 2
       THEN /\ pc' = [pc EXCEPT ![r] = "LockAcquired"]
            /\ UNCHANGED resp
       ELSE /\ pc' = [pc EXCEPT ![r] = "Built"]
            /\ resp' = [resp EXCEPT ![r] =
                          [code |-> 200, body |-> "water", text |-> result[r].text, secs |-> result[r].secs, pin |-> 0]]
    /\ UNCHANGED <<hw, line, holder, reqIn, slept, result, hist, client>>

\* .map_err(|e| (INTERNAL_SERVER_ERROR, ..))? and Ok(Json(WaterResponse { .. }))
WaterBuild(r) ==
    /\ pc[r] = "DriveDone" /\ kind[r] = "water"
    /\ resp' = [resp EXCEPT ![r] =
                  IF result[r].ok
                  THEN [code |-> 200, body |-> "water", text |-> result[r].text, secs |-> result[r].secs, pin |-> 0]
                  ELSE ErrResp(500, result[r].text)]
    /\ pc' = [pc EXCEPT ![r] = "Built"]
    /\ UNCHANGED <<hw, line, holder, reqIn, slept, result, hist, client>>

\* Variant of WaterReturn: the guard outlives the handler (mem::forget).
WaterReturn_KeepGuard(r) ==
    /\ pc[r] = "Built" /\ kind[r] = "water"
    /\ pc' = [pc EXCEPT ![r] = IF resp[r].code = 200 THEN "Responded" ELSE "Failed"]
    /\ UNCHANGED <<hw, line, holder, reqIn, slept, result, resp, hist, client>>

\* end of water_handler: the guard gpio is dropped, the response returned
WaterReturn(r) ==
    /\ pc[r] = "Built" /\ kind[r] = "water"
    /\ holder' = IF holder = r THEN 0 ELSE holder
    /\ pc' = [pc EXCEPT ![r] = IF resp[r].code = 200 THEN "Responded" ELSE "Failed"]
    /\ UNCHANGED <<hw, line, reqIn, slept, result, resp, hist, client>>


Next ==
    \/ MainGpioNew
    \/ MainServe
    \/ \E r \in Reqs : Arrive(r)
    \/ \E r \in Reqs : StatusAuth(r)
    \/ \E r \in Reqs : StatusLock(r)
    \/ \E r \in Reqs : StatusBuild(r)
    \/ \E r \in Reqs : StatusReturn(r)
    \/ \E r \in Reqs : WaterExtract(r)
    \/ \E r \in Reqs : WaterAuth(r)
    \/ \E r \in Reqs : WaterValidate(r)
    \/ \E r \in Reqs : WaterLock(r)
    \/ \E r \in Reqs : RunMotorStart(r)
    \/ \E r \in Reqs : Tick(r)
    \/ \E r \in Reqs : RunMotorFinish(r)
    \/ \E r \in Reqs : WaterBuild(r)
    \/ \E r \in Reqs : WaterReturn(r)

Spec == Init /\ [][Next]_vars

\* The steps of the task that serves request r, from its first poll to the
\* return of its handler.
HandlerStep(r) ==
    \/ StatusAuth(r) \/ StatusLock(r) \/ StatusBuild(r) \/ StatusReturn(r)
    \/ WaterExtract(r) \/ WaterAuth(r) \/ WaterValidate(r) \/ WaterLock(r)
    \/ RunMotorStart(r) \/ Tick(r) \/ RunMotorFinish(r)
    \/ WaterBuild(r) \/ WaterReturn(r)

\* Scheduling: main runs, the tokio runtime keeps polling every task that
\* can make progress, and timers fire.  Nothing is assumed about the order
\* in which the Mutex serves its waiters, and clients are free to send
\* nothing at all.
Fairness ==
    /\ WF_vars(MainGpioNew)
    /\ WF_vars(MainServe)
    /\ \A r \in Reqs : WF_vars(HandlerStep(r))

FairSpec == Spec /\ Fairness

\* The part of the scheduling a drive depends on: the timer of
\* tokio::time::sleep fires and the woken task is polled again.
DriveFairness == \A r \in Reqs : WF_vars(Tick(r)) /\ WF_vars(RunMotorFinish(r))

DriveFairSpec == Spec /\ DriveFairness

\* The await a request is at, or executes next: validate_api_key(..).await,
\* state.gpio.lock().await, or run_motor(..).await with the
\* tokio::time::sleep(duration).await inside it; "none" between awaits.
AwaitAt(r) ==
    IF kind[r] = "status"
    THEN CASE pc[r] = "Received" -> "validate_api_key"
           [] pc[r] = "Authenticated" -> "lock"
           [] OTHER -> "none"
    ELSE CASE pc[r] = "Extracted" -> "validate_api_key"
           [] pc[r] = "Validated" -> "lock"
           [] pc[r] \in {"LockAcquired", "Driving"} -> "run_motor"
           [] OTHER -> "none"

\* ------------------------------------------------------- the UI client

\* What the server side (backend, proxy or network) can answer: no answer
\* at all, or a status code with a body that has the members of a
\* StatusResponse, of a WaterResponse, of an ErrorResponse, or is no JSON.
ReplyCodes == {200, 400, 401, 422, 500}
ReplyShapes == {"status", "water", "error", "plain"}

\* The error member of an ErrorResponse body, as the backend words it.
ErrorField(code, shape) ==
    IF shape # "error" THEN "none"
    ELSE IF code = 401 THEN "Unauthorized: Invalid API Key"
    ELSE IF code = 400 THEN "Invalid request body. Expected {'action': 'start'}"
    ELSE IF code = 500 THEN "GPIO error"
    ELSE "error"

Replies ==
    { [kind |-> "net_err", code |-> 0, shape |-> "none", error |-> "none"] }
    \cup { [kind |-> "http", code |-> c, shape |-> sh, error |-> ErrorField(c, sh)] :
             c \in ReplyCodes, sh \in ReplyShapes }

\* response.json::<T>(): the body must have the members of T.
Parses(rp, T) == rp.shape = T

\* response.ok(): the status is in 200..299
ResponseOk(rp) == rp.kind = "http" /\ rp.code >= 200 /\ rp.code <= 299

SomeError(m, c) == [some |-> TRUE, msg |-> m, code |-> c]

\* let is_water_disabled = *is_loading || *connection_type == ConnectionType::None
is_water_disabled == is_loading \/ connection_type = "None"

\* Variant of CheckStart: connection_type is not reset before the request.
CheckStart_NoReset ==
    /\ cpc \in {"Unmounted", "Idle"}
    /\ ~is_loading
    /\ error' = NoError
    /\ status' = "connecting"
    /\ is_loading' = TRUE
    /\ reply' = NoReply
    /\ cpc' = "CheckSent"
    /\ UNCHANGED <<backend, connection_type, lastCheck>>

\* check_server_status up to send().await, run by the effect on mount and
\* by the re-check button (disabled while is_loading): error, status,
\* is_loading, connection_type are reset, then GET /status is sent.
CheckStart ==
    /\ cpc \in {"Unmounted", "Idle"}
    /\ ~is_loading
    /\ error' = NoError
    /\ status' = "connecting"
    /\ is_loading' = TRUE
    /\ connection_type' = "None"
    /\ reply' = NoReply
    /\ cpc' = "CheckSent"
    /\ UNCHANGED <<backend, lastCheck>>

\* check_server_status after send().await: the three arms of the match; a
\* 2xx goes on to response.json().await, the other arms end the task.
CheckReply ==
    /\ cpc = "CheckSent"
    /\ \E rp \in Replies :
        /\ reply' = rp
        /\ IF ResponseOk(rp)
           THEN /\ cpc' = "CheckParse"
                /\ UNCHANGED <<error, status, is_loading, lastCheck>>
           ELSE /\ error' = IF rp.kind = "http"
                            THEN SomeError("server not responding (status)", rp.code)
                            ELSE SomeError("connect failed", 0)
                /\ status' = "error"
                /\ is_loading' = FALSE
                /\ lastCheck' = "failed"
                /\ cpc' = "Idle"
    /\ UNCHANGED <<backend, connection_type>>

\* check_server_status after response.json::<StatusResponse>().await
CheckParse ==
    /\ cpc = "CheckParse"
    /\ IF Parses(reply, "status")
       THEN /\ status' = "connected: message"
            /\ connection_type' = "Remote"
            /\ lastCheck' = "ok"
            /\ UNCHANGED error
       ELSE /\ error' = SomeError("response parse error", 0)
            /\ status' = "error"
            /\ lastCheck' = "failed"
            /\ UNCHANGED connection_type
    /\ is_loading' = FALSE
    /\ cpc' = "Idle"
    /\ UNCHANGED <<backend, reply>>

\* handle_watering up to send().await, run by the watering button (disabled
\* when is_water_disabled): the request is built with API_KEY and action
\* "start"; if building fails the task ends at once.
WaterStart ==
    /\ cpc = "Idle"
    /\ ~is_water_disabled
    /\ reply' = NoReply
    /\ \E built \in BOOLEAN :
        IF built
        THEN /\ is_loading' = TRUE
             /\ error' = NoError
             /\ status' = "requesting watering"
             /\ cpc' = "WaterSent"
        ELSE /\ is_loading' = FALSE
             /\ error' = SomeError("request build error", 0)
             /\ status' = "error"
             /\ cpc' = "Idle"
    /\ UNCHANGED <<backend, connection_type, lastCheck>>

\* handle_watering after send().await: the four arms of the match
WaterReply ==
    /\ cpc = "WaterSent"
    /\ \E rp \in Replies :
        /\ reply' = rp
        /\ IF ResponseOk(rp)
           THEN /\ cpc' = "WaterParse"
                /\ UNCHANGED <<error, status, is_loading>>
           ELSE /\ error' = IF rp.kind = "http" /\ rp.code = 401
                            THEN SomeError("auth failed: wrong API key", 0)
                            ELSE IF rp.kind = "http"
                            THEN SomeError("server error (status)", rp.code)
                            ELSE SomeError("communication failed", 0)
                /\ status' = IF rp.kind = "http" /\ rp.code = 401
                             THEN "auth failed" ELSE "communication failed"
                /\ is_loading' = FALSE
                /\ cpc' = "Idle"
    /\ UNCHANGED <<backend, connection_type, lastCheck>>

\* handle_watering after response.json::<WaterResponse>().await
WaterParse ==
    /\ cpc = "WaterParse"
    /\ IF Parses(reply, "water")
       THEN /\ status' = "success: message"
            /\ UNCHANGED error
       ELSE /\ error' = SomeError("response parse error", 0)
            /\ status' = "error"
    /\ is_loading' = FALSE
    /\ cpc' = "Idle"
    /\ UNCHANGED <<backend, connection_type, reply, lastCheck>>

ClientNext ==
    \/ CheckStart
    \/ CheckReply
    \/ CheckParse
    \/ WaterStart
    \/ WaterReply
    \/ WaterParse

ClientSpec == Init /\ [][ClientNext]_vars

\* ------------------------------------------------------------ vocabulary

\* r is inside run_motor: it has begun a drive it has not finished.
InDrive(r) == started[r] > completed[r]

Arrived(r) == pc[r] # "Idle"

BadKey(r) == header[r] = NoHeader \/ header[r] # API_SECRET_KEY

ValidStart(r) ==
    /\ Arrived(r) /\ kind[r] = "water" /\ header[r] = API_SECRET_KEY
    /\ body[r] = {<<"action", "start">>}

\* ---------------------------------------------------------------- C1

\* C1: at most one run_motor drive is in flight at any instant, whatever
\* the number of concurrent valid start requests; a drive begins only when
\* every drive begun earlier has ended, and only by the holder of the lock.
C1_DrivesSerialized ==
    /\ [](Cardinality({r \in Reqs : InDrive(r)}) <= 1)
    /\ [](\A r \in Reqs : InDrive(r) => holder = r)
    /\ [][\A r \in Reqs :
            (~InDrive(r) /\ InDrive(r)') =>
                \A q \in Reqs \ {r} : completed[q] = started[q]]_vars

\* Two valid start requests were in flight together: one has finished its
\* drive, the other is driving now.
C1_Witness ==
    \E r1, r2 \in Reqs :
        /\ r1 # r2 /\ ValidStart(r1) /\ ValidStart(r2)
        /\ completed[r1] = 1 /\ InDrive(r2) /\ slept[r2] > 0

\* ---------------------------------------------------------------- C2

\* C2: an authenticated status request never acquires the lock and never
\* waits on it: while an actuation is driving, the status request can take
\* its next step without the actuation completing anything first.
C2_StatusNeverWaitsOnLock ==
    \A r \in Reqs :
        (Arrived(r) /\ kind[r] = "status") =>
            /\ holder # r
            /\ (pc[r] = "Authenticated" /\ \E w \in Reqs : InDrive(w)) =>
                ENABLED (StatusLock(r) \/ StatusBuild(r) \/ StatusReturn(r))

\* ---------------------------------------------------------------- C3

\* C3: a request to either handler whose X-API-KEY header is absent or
\* wrong is answered 401 with an error field whatever its body, never
\* holds the lock and never starts a drive.
C3_BadKeyIsUnauthorized ==
    \A r \in Reqs :
        (Arrived(r) /\ BadKey(r)) =>
            /\ holder # r
            /\ started[r] = 0
            /\ pc[r] \in Terminal =>
                (resp[r].code = 401 /\ resp[r].body = "error")

\* ---------------------------------------------------------------- C4

\* C4: an authenticated actuation request whose action is missing or is not
\* "start" is answered 400 with an error field, never holds the lock and
\* never starts a drive.
C4_BadActionIsInvalidRequest ==
    \A r \in Reqs :
        (Arrived(r) /\ kind[r] = "water" /\ ~BadKey(r)
            /\ body[r] # {<<"action", "start">>}) =>
            /\ holder # r
            /\ started[r] = 0
            /\ pc[r] \in Terminal =>
                (resp[r].code = 400 /\ resp[r].body = "error")

\* ---------------------------------------------------------------- C5

\* C5: a valid start request is never turned away, also when it arrives
\* during another actuation; having waited for the lock it performs its own
\* drive of the full duration and answers success, so the completed drives
\* are exactly those of the requests that have answered (or have left
\* run_motor and are about to answer), one drive each.
C5_QueuedRequestDrivesItself ==
    /\ \A r \in Reqs :
        ValidStart(r) =>
            /\ pc[r] \notin {"Unauthorized", "Rejected", "Failed", "ExtractRejected"}
            /\ pc[r] = "Responded" =>
                /\ started[r] = 1 /\ completed[r] = 1
                /\ slept[r] = WATER_DURATION_SECS
                /\ resp[r].code = 200 /\ resp[r].body = "water"
    /\ \A r \in Reqs : completed[r] = 1 =>
            (ValidStart(r) /\ pc[r] \in {"DriveDone", "Built", "Responded"})
    /\ Cardinality({r \in Reqs : completed[r] = 1})
         - Cardinality({r \in Reqs : kind[r] = "water" /\ pc[r] \in {"DriveDone", "Built"}})
       = Cardinality({r \in Reqs : ValidStart(r) /\ pc[r] = "Responded"})

\* Two valid start requests have both answered success, each after a
\* drive of its own.
C5_Witness ==
    \E r1, r2 \in Reqs :
        /\ r1 # r2 /\ ValidStart(r1) /\ ValidStart(r2)
        /\ pc[r1] = "Responded" /\ pc[r2] = "Responded"
        /\ completed[r1] = 1 /\ completed[r2] = 1

\* ---------------------------------------------------------------- C6

C7_LockNeverLeaked ==
    /\ \A r \in Reqs : pc[r] \in Terminal => holder # r
    /\ holder # 0 => pc[holder] \in {"LockAcquired", "Driving", "DriveDone", "Built"}

\* A request that held the lock has answered and the lock is free again.
C7_Witness ==
    \E r \in Reqs :
        /\ kind[r] = "water" /\ pc[r] = "Responded" /\ completed[r] = 1
        /\ holder = 0

\* ---------------------------------------------------------------- C8

\* C8: a request calls run_motor at most once, a request that has been
\* answered is never run again, and an Internal Error answer follows exactly
\* one drive.
C8_AtMostOneDrivePerRequest ==
    /\ [](\A r \in Reqs : started[r] <= 1 /\ completed[r] <= started[r])
    /\ [](\A r \in Reqs : pc[r] = "Failed" =>
            (started[r] = 1 /\ resp[r].code = 500 /\ resp[r].body = "error"))
    /\ [][\A r \in Reqs :
            pc[r] \in Terminal =>
                (pc'[r] = pc[r] /\ started'[r] = started[r] /\ resp'[r] = resp[r])]_vars

\* A request has been answered after its one drive.
C8_Witness ==
    \E r \in Reqs : pc[r] \in Terminal /\ started[r] = 1 /\ completed[r] = 1

\* ---------------------------------------------------------------- C9

\* C9: once GpioController::new has chosen the variant, no request and no
\* drive changes it.
C9_VariantFixedAtStartup ==
    /\ [][mainPc # "start" => variant' = variant]_vars
    /\ [][variant' # variant => (mainPc = "start" /\ variant = "Unconstructed")]_vars
    /\ [](mainPc # "start" => variant \in {"Real", "Dummy"})

\* A drive and a status request have both been served.
C9_Witness ==
    \E r1, r2 \in Reqs :
        /\ kind[r1] = "water" /\ completed[r1] = 1 /\ pc[r1] = "Responded"
        /\ kind[r2] = "status" /\ pc[r2] = "Responded" /\ resp[r2].code = 200
        /\ variant \in {"Real", "Dummy"}

\* --------------------------------------------------------------- C10

\* C10: construction always yields a controller: Real exactly when the
\* gpio facility and the pin were both obtained, with the pin low, and
\* Dummy on every failure.
C10_ConstructionNeverFails ==
    /\ [](mainPc = "start" => ENABLED MainGpioNew)
    /\ [](mainPc # "start" => variant \in {"Real", "Dummy"})
    /\ [][mainPc = "start" /\ mainPc' # "start" =>
            /\ variant' = "Real" <=> probe = "Ok"
            /\ variant' = "Dummy" <=> probe \in {"NoFeature", "GpioErr", "PinErr"}
            /\ variant' = "Real" => line' = "low"
            /\ variant' = "Dummy" => line' = "unbound"]_vars

\* Construction has just produced the Real variant with its pin low.
C10_Witness == mainPc = "constructed" /\ variant = "Real" /\ line = "low"

\* --------------------------------------------------------------- C11

\* C11: on the Dummy variant a valid start request is never answered with a
\* failure; when answered it has slept the whole duration, the pin was never
\* touched, the answer is 200 with the descriptor of the simulated run, and
\* every answered status request carries the simulation label.
C11_DummyDriveSucceeds ==
    variant = "Dummy" =>
        /\ line = "unbound"
        /\ \A r \in Reqs :
            ValidStart(r) =>
                /\ pc[r] \notin {"Unauthorized", "Rejected", "Failed", "ExtractRejected"}
                /\ completed[r] = 1 =>
                    /\ slept[r] >= WATER_DURATION_SECS
                    /\ result[r].ok /\ result[r].text = "dummy run"
                    /\ result[r].secs = WATER_DURATION_SECS
                /\ pc[r] = "Responded" =>
                    /\ resp[r].code = 200 /\ resp[r].body = "water"
                    /\ resp[r].text = "dummy run"
        /\ \A r \in Reqs :
            (kind[r] = "status" /\ pc[r] = "Responded") =>
                (resp[r].code = 200 /\ resp[r].text = "DUMMY MODE")

\* On the Dummy variant a start request and a status request have both
\* been answered.
C11_Witness ==
    /\ variant = "Dummy"
    /\ \E r1, r2 \in Reqs :
        /\ ValidStart(r1) /\ pc[r1] = "Responded" /\ resp[r1].text = "dummy run"
        /\ kind[r2] = "status" /\ pc[r2] = "Responded" /\ resp[r2].text = "DUMMY MODE"

\* --------------------------------------------------------------- C12

\* C12: a status request changes neither the variant, the pin level nor the
\* drive counts in any of its steps; its answer carries "DUMMY MODE" exactly
\* on the Dummy variant, the live label otherwise, and the configured pin,
\* so that all answered status requests carry the same snapshot.
C12_StatusIsReadOnly ==
    /\ [][(\E r \in Reqs : kind[r] = "status" /\ Arrived(r) /\ pc'[r] # pc[r]) =>
            (variant' = variant /\ line' = line
                /\ started' = started /\ completed' = completed)]_vars
    /\ [](\A r \in Reqs :
            (kind[r] = "status" /\ resp[r].code = 200) =>
                /\ resp[r].text = "DUMMY MODE" <=> variant = "Dummy"
                /\ resp[r].text = "LIVE RPi.GPIO MODE" <=> variant = "Real"
                /\ resp[r].pin = 17)
    /\ [](\A r1, r2 \in Reqs :
            (kind[r1] = "status" /\ resp[r1].code = 200
                /\ kind[r2] = "status" /\ resp[r2].code = 200) => resp[r1] = resp[r2])

\* Two status requests have been answered on the Real variant.
C12_Witness ==
    \E r1, r2 \in Reqs :
        /\ r1 # r2 /\ variant = "Real"
        /\ kind[r1] = "status" /\ pc[r1] = "Responded" /\ resp[r1].code = 200
        /\ kind[r2] = "status" /\ pc[r2] = "Responded" /\ resp[r2].code = 200

\* --------------------------------------------------------------- C14

\* C14: an actuation request passes its stages only in the order Received,
\* Authenticated, Validated, LockAcquired, Driving, LockReleased, Responded,
\* leaving early only to Unauthorized, Rejected or Failed, and it no longer
\* holds the lock when its response is built.
C14_StagesInOrder ==
    /\ [][\A r \in Reqs :
            (kind[r] = "water" /\ Arrived(r) /\ pc'[r] # pc[r]) =>
                \/ pc[r] \in {"Received", "Extracted"}
                    /\ pc'[r] \in {"Extracted", "Authenticated", "Unauthorized"}
                \/ pc[r] = "Authenticated" /\ pc'[r] \in {"Validated", "Rejected"}
                \/ pc[r] = "Validated" /\ pc'[r] = "LockAcquired"
                \/ pc[r] = "LockAcquired" /\ pc'[r] = "Driving"
                \/ pc[r] = "Driving" /\ pc'[r] = "DriveDone"
                \/ pc[r] = "DriveDone" /\ pc'[r] = "Built"
                \/ pc[r] = "Built" /\ pc'[r] \in {"Responded", "Failed"}]_vars
    /\ [](\A r \in Reqs :
            (kind[r] = "water" /\ resp[r].code \in {200, 500}) => holder # r)

\* --------------------------------------------------------------- C15

\* C15: the only await a handler is at while it holds the lock is the one
\* of run_motor, in water_handler; status_handler is at no await between
\* taking the guard and dropping it.
C15_OnlyDriveAwaitUnderLock ==
    \A r \in Reqs :
        holder = r =>
            /\ AwaitAt(r) \in {"none", "run_motor"}
            /\ AwaitAt(r) = "run_motor" => kind[r] = "water"
            /\ kind[r] = "status" => AwaitAt(r) = "none"

\* A status request holds the lock, and another request waits at its
\* lock().await.
C15_Witness ==
    \E r1, r2 \in Reqs :
        /\ kind[r1] = "status" /\ holder = r1
        /\ r2 # r1 /\ AwaitAt(r2) = "lock"

\* --------------------------------------------------------------- C16

C18_InternalErrorUnreachable ==
    \A r \in Reqs :
        /\ result[r].ok
        /\ pc[r] # "Failed"
        /\ resp[r].code # 500
        /\ (kind[r] = "water" /\ started[r] > 0 /\ resp[r].code # 0) =>
                (resp[r].code = 200 /\ resp[r].body = "water")
        /\ (kind[r] = "water" /\ started[r] > 0 /\ pc[r] \in Terminal) =>
                pc[r] = "Responded"

\* A request that drove the Real pin has been answered 200.
C18_Witness ==
    \E r \in Reqs :
        /\ variant = "Real" /\ ValidStart(r) /\ completed[r] = 1
        /\ pc[r] = "Responded" /\ resp[r].code = 200

\* --------------------------------------------------------------- C17

\* C17: under fair scheduling every request that has arrived is eventually
\* answered with success, Unauthorized, Bad Request or Internal Error, and a
\* lock that is held is eventually free again.
C17_EveryRequestAnswered ==
    /\ \A r \in Reqs :
        Arrived(r) ~> (pc[r] \in {"Responded", "Unauthorized", "Rejected", "Failed"}
                        /\ resp[r].code \in {200, 401, 400, 500})
    /\ (holder # 0) ~> (holder = 0)

\* --------------------------------------------------------------- C13

\* C13: after a non-2xx answer to either request the client is in a failure
\* state: its error is set, its status is a failure status, and the error it
\* displays is the error member of the answer's body.
C13_NonOkShowsServerError ==
    (cpc = "Idle" /\ reply.kind = "http" /\ ~ResponseOk(reply)) =>
        /\ error.some
        /\ status \in {"error", "auth failed", "communication failed"}
        /\ reply.shape = "error" => error.msg = reply.error

\* --------------------------------------------------------------- C19

\* C19: the client sends a watering request only when is_loading is false
\* and connection_type is Remote; connection_type is Remote only when the
\* last completed status check succeeded and none is in progress; a status
\* check begins by resetting it to None; is_loading is true exactly while a
\* request is in progress.
C19_ClientGating ==
    /\ [][(cpc # "WaterSent" /\ cpc' = "WaterSent") =>
            (~is_loading /\ connection_type = "Remote")]_vars
    /\ [](connection_type = "Remote" =>
            (lastCheck = "ok" /\ cpc \notin {"CheckSent", "CheckParse"}))
    /\ [][(cpc # "CheckSent" /\ cpc' = "CheckSent") => connection_type' = "None"]_vars
    /\ [](is_loading <=> cpc \in {"CheckSent", "CheckParse", "WaterSent", "WaterParse"})

\* After a successful check a watering request was sent, was answered with
\* a failure, and the client is ready for the next request.
C19_Witness ==
    /\ cpc = "Idle" /\ ~is_loading /\ connection_type = "Remote" /\ lastCheck = "ok"
    /\ reply.kind = "http" /\ reply.code = 500 /\ error.some

====
